---- MODULE Spec2Model ----
(***************************************************************************)
(* Reply-graph reconstruction of telesight (lib/reply-graph.ts).           *)
(*                                                                         *)
(* buildReplyGraph is a pure function of (messages, includeCrossChannel).  *)
(* It is written here the way the source computes it: JavaScript Sets and  *)
(* Maps iterate in insertion order, so nodeIds is an insertion-ordered     *)
(* sequence without duplicates, and both breadth-first searches use FIFO   *)
(* queues that scan the adjacency list / edge list in array order.         *)
(***************************************************************************)
EXTENDS Integers, Sequences, FiniteSets, TLC

VARIABLES
    messages,             \* the messages argument / prop
    includeCrossChannel,  \* the flag of the latest call
    graphData,            \* the ReplyGraphData the latest call returned
    pc,                   \* "idle" before the first call, "returned" after
                          \* it, "returned_again" after every later call;
                          \* "for", "while", "depthWhile" inside a call that
                          \* is followed loop iteration by loop iteration
    loop,                 \* the locals of such a call
    nodesRef,             \* nodesRef.current: the nodes of the simulation
    transformRef,         \* transformRef.current: {x, y, k}
    draggingRef,          \* draggingRef.current: index of the node, or Null
    panningRef,           \* panningRef.current
    lastMouseRef,         \* lastMouseRef.current: {x, y} in client coordinates
    hoveredNode,          \* index of the hovered node, or Null
    selectedNode,         \* the selected node (NodeRef), or Null
    selectedChain,        \* id of the selected chain, or Null
    alphaTarget,          \* the alpha target of the simulation
    gesture,              \* what the latest mouse-down started, and whether
                          \* a click has followed it (kept for the properties)
    wheelCount            \* number of wheel events handled so far

graphVars == <<messages, includeCrossChannel, graphData, pc, loop>>

viewVars == <<nodesRef, transformRef, draggingRef, panningRef, lastMouseRef,
              hoveredNode, selectedNode, selectedChain, alphaTarget, gesture,
              wheelCount>>

vars == <<graphVars, viewVars>>

(***************************************************************************)
(* Bounds of the model.                                                    *)
(***************************************************************************)
MaxMsgs == 3        \* longest export with unique ids
MaxId == 2          \* its message ids are 0..MaxId
MaxMixMsgs == 2     \* longest export with service messages and repeated ids
MaxMixId == 1       \* its message ids are 0..MaxMixId
MaxAttrMsgs == 2    \* longest export whose reactions and media markers vary
MaxAttrId == 1      \* its message ids are 0..MaxAttrId
MaxLoopMsgs == 2    \* longest export of a call followed iteration by iteration
MaxLoopId == 1      \* its message ids are 0..MaxLoopId
MaxPan == 100       \* largest pan offset |transform.x|, |transform.y|
MaxFindNodes == 2   \* longest node array findNode is applied to
MaxWheels == 2      \* number of wheel events of a behaviour
MaxZoomWheels == 1  \* number of wheel events among pans, drags and resets

(***************************************************************************)
(* Values.                                                                 *)
(***************************************************************************)
Null == -1                       \* null / undefined (never a message id)
MsgTypes == {"message", "service"}
EpochZero == 0                   \* new Date(0)
ExportDate == 1700000000         \* date of every message of the export

Range(s) == {s[i] : i \in 1..Len(s)}

\* SetAdd on an array: push without the membership test
SetAdd_Push(s, x) == Append(s, x)

\* Set.prototype.add on an insertion-ordered Set
SetAdd(s, x) == IF x \in Range(s) THEN s ELSE Append(s, x)

(***************************************************************************)
(* TelegramMessage: the fields buildReplyGraph reads.                      *)
(*   hasReactions: the reactions field is present; reactionCounts: the     *)
(*   count of each of its entries.                                         *)
(*   media: photo || file || media_type is truthy.                         *)
(***************************************************************************)
Message(id, type, reply, hasReactions, counts, media) ==
    [id |-> id, type |-> type, reply_to_message_id |-> reply,
     date |-> ExportDate, hasReactions |-> hasReactions,
     reactionCounts |-> counts, media |-> media]

\* reply targets of an export with ids 0..maxId: null, an id of the export,
\* or maxId + 1, which no message of the export has
ReplyTargets(maxId) == 0..(maxId + 1) \cup {Null}

\* messages of type "message" without reactions and media
PlainMessages ==
    {Message(id, "message", r, FALSE, <<>>, FALSE) :
        id \in 0..MaxId, r \in ReplyTargets(MaxId)}

\* messages of either type
MixedMessages ==
    {Message(id, t, r, FALSE, <<>>, FALSE) :
        id \in 0..MaxMixId, t \in MsgTypes, r \in ReplyTargets(MaxMixId)}

\* the plain messages of a call that is followed iteration by iteration
LoopMessages ==
    {Message(id, "message", r, FALSE, <<>>, FALSE) :
        id \in 0..MaxLoopId, r \in ReplyTargets(MaxLoopId)}

\* the reactions field and the media markers of a message
AttrChoices ==
    {<<FALSE, <<>>, FALSE>>, <<TRUE, <<>>, TRUE>>,
     <<TRUE, <<1>>, FALSE>>, <<TRUE, <<2, 3>>, TRUE>>,
     <<TRUE, <<40, 60>>, FALSE>>}

\* messages of type "message" with reactions and media markers
AttrMessages ==
    {Message(id, "message", r, a[1], a[2], a[3]) :
        id \in 0..MaxAttrId, r \in ReplyTargets(MaxAttrId), a \in AttrChoices}

\* an export lists every id once (ids are unique within an export)
UniqueIds(msgs) ==
    \A i, j \in 1..Len(msgs) : msgs[i].id = msgs[j].id => i = j

\* the exports of k messages drawn from S, in any order, ids unique
UniqueLists(S, k) == {msgs \in [1..k -> S] : UniqueIds(msgs)}

(***************************************************************************)
(* messageMap: Map<id, message>; a later message with the same id          *)
(* overwrites an earlier one.                                              *)
(***************************************************************************)
MapHas(msgs, id) == \E i \in 1..Len(msgs) : msgs[i].id = id

MapGet(msgs, id) ==
    LET last == CHOOSE i \in 1..Len(msgs) :
                    /\ msgs[i].id = id
                    /\ \A j \in (i+1)..Len(msgs) : msgs[j].id # id
    IN msgs[last]

\* IsReply without the test of the message type
IsReply_AnyType(m) == m.reply_to_message_id # Null

IsReply(m) == m.type = "message" /\ m.reply_to_message_id # Null

\* Array.prototype.filter keeps the array order
ReplyMessages(msgs) == SelectSeq(msgs, IsReply)

Edge(s, t) == [source |-> s, target |-> t]

(***************************************************************************)
(* The loop over replyMessages: counts, registered node ids and edges.     *)
(***************************************************************************)
ScanInit == [selfReplyCount |-> 0, crossChannelReplyCount |-> 0,
             nodeIds |-> <<>>, edges |-> <<>>]

\* Register without nodeIds.add(targetId)
Register_NoTargetNode(acc, msg, targetId) ==
    [acc EXCEPT
        !.nodeIds = SetAdd(acc.nodeIds, msg.id),
        !.edges = Append(acc.edges, Edge(targetId, msg.id))]

\* Register whose edge points from the replying message to its target
Register_Reversed(acc, msg, targetId) ==
    [acc EXCEPT
        !.nodeIds = SetAdd(SetAdd(acc.nodeIds, msg.id), targetId),
        !.edges = Append(acc.edges, Edge(msg.id, targetId))]

\* nodeIds.add(msg.id); nodeIds.add(targetId); edges.push({source, target})
Register(acc, msg, targetId) ==
    [acc EXCEPT
        !.nodeIds = SetAdd(SetAdd(acc.nodeIds, msg.id), targetId),
        !.edges = Append(acc.edges, Edge(targetId, msg.id))]

\* ScanStep that counts a dangling reply only when it is included
ScanStep_CountIfIncluded(msgs, flag, acc, msg) ==
    LET targetId == msg.reply_to_message_id
        registered == Register(acc, msg, targetId)
    IN IF MapHas(msgs, targetId)
       THEN [registered EXCEPT !.selfReplyCount = acc.selfReplyCount + 1]
       ELSE IF flag
            THEN [registered EXCEPT
                    !.crossChannelReplyCount = acc.crossChannelReplyCount + 1]
            ELSE acc

\* ScanStep that registers a dangling reply whatever the flag
ScanStep_AlwaysInclude(msgs, flag, acc, msg) ==
    LET targetId == msg.reply_to_message_id
        registered == Register(acc, msg, targetId)
    IN IF MapHas(msgs, targetId)
       THEN [registered EXCEPT !.selfReplyCount = acc.selfReplyCount + 1]
       ELSE [registered EXCEPT
                !.crossChannelReplyCount = acc.crossChannelReplyCount + 1]

\* ScanStep without selfReplyCount++
ScanStep_NoSelfCount(msgs, flag, acc, msg) ==
    LET targetId == msg.reply_to_message_id
        registered == Register(acc, msg, targetId)
    IN IF MapHas(msgs, targetId)
       THEN registered
       ELSE IF flag
            THEN [registered EXCEPT
                    !.crossChannelReplyCount = acc.crossChannelReplyCount + 1]
            ELSE [acc EXCEPT
                    !.crossChannelReplyCount = acc.crossChannelReplyCount + 1]

ScanStep(msgs, flag, acc, msg) ==
    LET targetId == msg.reply_to_message_id
        targetExists == MapHas(msgs, targetId)
        registered == Register(acc, msg, targetId)
    IN IF targetExists
       THEN [registered EXCEPT !.selfReplyCount = acc.selfReplyCount + 1]
       ELSE IF flag
            THEN [registered EXCEPT
                    !.crossChannelReplyCount = acc.crossChannelReplyCount + 1]
            ELSE [acc EXCEPT
                    !.crossChannelReplyCount = acc.crossChannelReplyCount + 1]

RECURSIVE ScanReplies(_, _, _, _)
ScanReplies(msgs, flag, replies, acc) ==
    IF replies = <<>> THEN acc
    ELSE ScanReplies(msgs, flag, Tail(replies),
                     ScanStep(msgs, flag, acc, Head(replies)))

(***************************************************************************)
(* Graph nodes.                                                            *)
(***************************************************************************)
RECURSIVE SumSeq(_)
SumSeq(s) == IF s = <<>> THEN 0 ELSE Head(s) + SumSeq(Tail(s))

\* ReactionCount without || 0: undefined when there are no reactions
ReactionCount_NoDefault(msgs, id) ==
    IF ~MapHas(msgs, id) THEN Null
    ELSE LET msg == MapGet(msgs, id)
         IN IF msg.hasReactions THEN SumSeq(msg.reactionCounts) ELSE Null

\* msg?.reactions?.reduce((s, r) => s + r.count, 0) || 0
ReactionCount(msgs, id) ==
    IF ~MapHas(msgs, id) THEN 0
    ELSE LET msg == MapGet(msgs, id)
         IN IF msg.hasReactions THEN SumSeq(msg.reactionCounts) ELSE 0

\* floor of the square root, by bisection on lo..hi
RECURSIVE IsqrtIn(_, _, _)
IsqrtIn(n, lo, hi) ==
    IF lo >= hi THEN lo
    ELSE LET mid == (lo + hi + 1) \div 2
         IN IF mid * mid <= n THEN IsqrtIn(n, mid, hi)
            ELSE IsqrtIn(n, lo, mid - 1)

\* roots above 20000 are cut off: Radius clamps them to 20000 anyway
Isqrt(n) == IsqrtIn(n, 0, IF n < 20000 THEN n ELSE 20000)

Max(a, b) == IF a >= b THEN a ELSE b
Min(a, b) == IF a <= b THEN a ELSE b

\* Radius without Math.min(20, ...)
Radius_Unclamped(reactionCount) ==
    Max(6000, 6000 + Isqrt(reactionCount * 2250000))

\* Math.max(6, Math.min(20, 6 + Math.sqrt(reactionCount) * 1.5)),
\* in thousandths, rounded down: sqrt(c) * 1.5 * 1000 = sqrt(c * 2250000)
Radius(reactionCount) ==
    Max(6000, Min(20000, 6000 + Isqrt(reactionCount * 2250000)))

\* IsForwardedReply without the negation
IsForwardedReply_Has(msgs, id) == MapHas(msgs, id)

\* isForwardedReply: !messageMap.has(id)
IsForwardedReply(msgs, id) == ~MapHas(msgs, id)

\* date: msg ? new Date(msg.date) : new Date(0)
NodeDate(msgs, id) ==
    IF MapHas(msgs, id) THEN MapGet(msgs, id).date ELSE EpochZero

\* hasMedia: !!(msg?.photo || msg?.file || msg?.media_type)
HasMedia(msgs, id) == IF MapHas(msgs, id) THEN MapGet(msgs, id).media ELSE FALSE

\* MakeNode that also places the node: x and y are set
MakeNode_Positioned(msgs, id) ==
    [id |-> id,
     date |-> NodeDate(msgs, id),
     reactionCount |-> ReactionCount(msgs, id),
     hasMedia |-> HasMedia(msgs, id),
     isForwardedReply |-> IsForwardedReply(msgs, id),
     radius |-> Radius(ReactionCount(msgs, id)),
     chainId |-> 0,
     x |-> 0,
     y |-> 0]

\* nodes.push({id, message, date, reactionCount, ..., radius, chainId: 0}):
\* the optional x, y, vx, vy, fx, fy of GraphNode are not written
MakeNode(msgs, id) ==
    [id |-> id,
     date |-> NodeDate(msgs, id),
     reactionCount |-> ReactionCount(msgs, id),
     hasMedia |-> HasMedia(msgs, id),
     isForwardedReply |-> IsForwardedReply(msgs, id),
     radius |-> Radius(ReactionCount(msgs, id)),
     chainId |-> 0]

\* for (const id of nodeIds) nodes.push({...})
BuildNodes(msgs, nodeIds) ==
    [i \in 1..Len(nodeIds) |-> MakeNode(msgs, nodeIds[i])]

(***************************************************************************)
(* Undirected adjacency list: adj.get(source).push(target) and             *)
(* adj.get(target).push(source) for every edge, in edge order.             *)
(***************************************************************************)
\* Adj with only adj.get(source).push(target): the edge is followed one way
RECURSIVE Adj_Directed(_, _)
Adj_Directed(edges, id) ==
    IF edges = <<>> THEN <<>>
    ELSE LET e == Head(edges)
         IN (IF e.source = id THEN <<e.target>> ELSE <<>>)
            \o Adj_Directed(Tail(edges), id)

RECURSIVE Adj(_, _)
Adj(edges, id) ==
    IF edges = <<>> THEN <<>>
    ELSE LET e == Head(edges)
         IN (IF e.source = id THEN <<e.target>> ELSE <<>>)
            \o (IF e.target = id THEN <<e.source>> ELSE <<>>)
            \o Adj(Tail(edges), id)

(***************************************************************************)
(* Component BFS.  st = [queue, visited, chainNodeIds, chainIdOf];         *)
(* chainIdOf[id] is the chainId field of the node with that id.            *)
(***************************************************************************)
\* VisitNeighbors without the test visited.has(neighbor)
RECURSIVE VisitNeighbors_NoVisitedTest(_, _)
VisitNeighbors_NoVisitedTest(neighbors, st) ==
    IF neighbors = <<>> THEN st
    ELSE LET neighbor == Head(neighbors)
         IN VisitNeighbors_NoVisitedTest(Tail(neighbors),
                [st EXCEPT !.visited = st.visited \cup {neighbor},
                           !.queue = Append(st.queue, neighbor)])

\* for (const neighbor of adj.get(current)) if (!visited.has(neighbor)) ...
RECURSIVE VisitNeighbors(_, _)
VisitNeighbors(neighbors, st) ==
    IF neighbors = <<>> THEN st
    ELSE LET neighbor == Head(neighbors)
         IN VisitNeighbors(Tail(neighbors),
                IF neighbor \notin st.visited
                THEN [st EXCEPT !.visited = st.visited \cup {neighbor},
                                !.queue = Append(st.queue, neighbor)]
                ELSE st)

\* one iteration: current = queue.shift(); chainNodeIds.push(current); ...
ChainBfsStep(edges, chainId, st) ==
    LET current == Head(st.queue)
        popped == [st EXCEPT
            !.queue = Tail(st.queue),
            !.chainNodeIds = Append(st.chainNodeIds, current),
            !.chainIdOf = [st.chainIdOf EXCEPT ![current] = chainId]]
    IN VisitNeighbors(Adj(edges, current), popped)

\* while (queue.length > 0) { ... }
RECURSIVE ChainBfs(_, _, _)
ChainBfs(edges, chainId, st) ==
    IF st.queue = <<>> THEN st
    ELSE ChainBfs(edges, chainId, ChainBfsStep(edges, chainId, st))

(***************************************************************************)
(* Root and depth of one chain.                                            *)
(***************************************************************************)
\* ChainEdges without the filter: every chain gets the whole edge list
ChainEdges_Unfiltered(edges, chainNodeIds) == edges

\* edges.filter(e => chainNodeIds.includes(e.source) && chainNodeIds.includes(e.target))
ChainEdges(edges, chainNodeIds) ==
    LET InChain(e) == e.source \in Range(chainNodeIds)
                      /\ e.target \in Range(chainNodeIds)
    IN SelectSeq(edges, InChain)

\* new Set(chainEdges.map(e => e.target))
HasIncoming(chainEdges) == {chainEdges[i].target : i \in 1..Len(chainEdges)}

\* chainNodeIds.filter(id => !hasIncoming.has(id))
Roots(chainNodeIds, chainEdges) ==
    LET NoIncoming(id) == id \notin HasIncoming(chainEdges)
    IN SelectSeq(chainNodeIds, NoIncoming)

\* RootId that falls back to the node found last
RootId_LastFallback(chainNodeIds, chainEdges) ==
    LET roots == Roots(chainNodeIds, chainEdges)
    IN IF roots # <<>> /\ roots[1] # 0 THEN roots[1]
       ELSE chainNodeIds[Len(chainNodeIds)]

\* roots[0] || chainNodeIds[0]: undefined and 0 are both falsy
RootId(chainNodeIds, chainEdges) ==
    LET roots == Roots(chainNodeIds, chainEdges)
    IN IF roots # <<>> /\ roots[1] # 0 THEN roots[1] ELSE chainNodeIds[1]

\* for (const e of chainEdges) if (e.source === cid && !depthVisited.has(e.target)) ...
RECURSIVE DepthScan(_, _, _, _)
DepthScan(chainEdges, cid, depth, st) ==
    IF chainEdges = <<>> THEN st
    ELSE LET e == Head(chainEdges)
         IN DepthScan(Tail(chainEdges), cid, depth,
                IF e.source = cid /\ e.target \notin st.depthVisited
                THEN [st EXCEPT
                        !.depthVisited = st.depthVisited \cup {e.target},
                        !.depthQueue = Append(st.depthQueue, <<e.target, depth + 1>>)]
                ELSE st)

\* one iteration: [cid, depth] = depthQueue.shift(); maxDepth = ...; for ...
DepthBfsStep(chainEdges, st) ==
    LET cid == Head(st.depthQueue)[1]
        depth == Head(st.depthQueue)[2]
        popped == [st EXCEPT !.depthQueue = Tail(st.depthQueue),
                             !.maxDepth = Max(st.maxDepth, depth)]
    IN DepthScan(chainEdges, cid, depth, popped)

\* while (depthQueue.length > 0) { ... }
RECURSIVE DepthBfs(_, _)
DepthBfs(chainEdges, st) ==
    IF st.depthQueue = <<>> THEN st.maxDepth
    ELSE DepthBfs(chainEdges, DepthBfsStep(chainEdges, st))

\* let maxDepth = 0; depthQueue = [[rootId, 0]]; depthVisited = {rootId}
DepthStart(rootId) ==
    [maxDepth |-> 0,
     depthQueue |-> <<<<rootId, 0>>>>,
     depthVisited |-> {rootId}]

ChainDepth(chainEdges, rootId) == DepthBfs(chainEdges, DepthStart(rootId))

\* chains.push({id, nodes, edges, rootId, depth}); nodes are held by id
MakeChain(edges, chainId, chainNodeIds) ==
    LET chainEdges == ChainEdges(edges, chainNodeIds)
        rootId == RootId(chainNodeIds, chainEdges)
    IN [id |-> chainId, nodes |-> chainNodeIds, edges |-> chainEdges,
        rootId |-> rootId, depth |-> ChainDepth(chainEdges, rootId)]

(***************************************************************************)
(* for (const startId of nodeIds) { if (visited.has(startId)) continue ... *)
(* out = [visited, chains, chainId, chainIdOf]                             *)
(***************************************************************************)
\* BfsStart with a visited set that is created anew for every chain
BfsStart_FreshVisited(startId, out) ==
    [queue |-> <<startId>>,
     visited |-> {startId},
     chainNodeIds |-> <<>>,
     chainIdOf |-> out.chainIdOf]

\* const queue = [startId]; visited.add(startId); const chainNodeIds = []
BfsStart(startId, out) ==
    [queue |-> <<startId>>,
     visited |-> out.visited \cup {startId},
     chainNodeIds |-> <<>>,
     chainIdOf |-> out.chainIdOf]

RECURSIVE FindChains(_, _, _)
FindChains(edges, starts, out) ==
    IF starts = <<>> THEN out
    ELSE LET startId == Head(starts)
         IN IF startId \in out.visited
            THEN FindChains(edges, Tail(starts), out)
            ELSE LET chainId == out.chainId + 1
                     bfs == ChainBfs(edges, chainId, BfsStart(startId, out))
                 IN FindChains(edges, Tail(starts),
                        [visited |-> bfs.visited,
                         chains |-> Append(out.chains,
                                      MakeChain(edges, chainId, bfs.chainNodeIds)),
                         chainId |-> chainId,
                         chainIdOf |-> bfs.chainIdOf])

\* InsertChain that puts a chain before the chains of its own size
RECURSIVE InsertChain_TiesFirst(_, _)
InsertChain_TiesFirst(sorted, c) ==
    IF sorted = <<>> THEN <<c>>
    ELSE IF Len(c.nodes) >= Len(Head(sorted).nodes)
         THEN <<c>> \o sorted
         ELSE <<Head(sorted)>> \o InsertChain_TiesFirst(Tail(sorted), c)

\* chains.sort((a, b) => b.nodes.length - a.nodes.length): a stable sort
RECURSIVE InsertChain(_, _)
InsertChain(sorted, c) ==
    IF sorted = <<>> THEN <<c>>
    ELSE IF Len(c.nodes) > Len(Head(sorted).nodes)
         THEN <<c>> \o sorted
         ELSE <<Head(sorted)>> \o InsertChain(Tail(sorted), c)

RECURSIVE SortChains(_)
SortChains(chains) ==
    IF chains = <<>> THEN <<>>
    ELSE InsertChain(SortChains(SubSeq(chains, 1, Len(chains) - 1)),
                     chains[Len(chains)])

(***************************************************************************)
(* buildReplyGraph(messages, includeCrossChannel)                          *)
(***************************************************************************)
\* the nodes with the chainId the component search wrote into them
WithChainIds(nodes, chainIdOf) ==
    [i \in 1..Len(nodes) |-> [nodes[i] EXCEPT !.chainId = chainIdOf[nodes[i].id]]]

\* buildReplyGraph whose chains are numbered anew after the sort
buildReplyGraph_Renumbered(msgs, flag) ==
    LET scan == ScanReplies(msgs, flag, ReplyMessages(msgs), ScanInit)
        nodes == BuildNodes(msgs, scan.nodeIds)
        found == FindChains(scan.edges, scan.nodeIds,
                    [visited |-> {}, chains |-> <<>>, chainId |-> 0,
                     chainIdOf |-> [id \in Range(scan.nodeIds) |-> 0]])
        sorted == SortChains(found.chains)
    IN [nodes |-> WithChainIds(nodes, found.chainIdOf),
        edges |-> scan.edges,
        chains |-> [k \in 1..Len(sorted) |-> [sorted[k] EXCEPT !.id = k]],
        selfReplyCount |-> scan.selfReplyCount,
        crossChannelReplyCount |-> scan.crossChannelReplyCount]

buildReplyGraph(msgs, flag) ==
    LET scan == ScanReplies(msgs, flag, ReplyMessages(msgs), ScanInit)
        nodes == BuildNodes(msgs, scan.nodeIds)
        found == FindChains(scan.edges, scan.nodeIds,
                    [visited |-> {}, chains |-> <<>>, chainId |-> 0,
                     chainIdOf |-> [id \in Range(scan.nodeIds) |-> 0]])
    IN [nodes |-> WithChainIds(nodes, found.chainIdOf),
        edges |-> scan.edges,
        chains |-> SortChains(found.chains),
        selfReplyCount |-> scan.selfReplyCount,
        crossChannelReplyCount |-> scan.crossChannelReplyCount]

(***************************************************************************)
(* Numbers of the view.  Coordinates, scales and radii are JavaScript      *)
(* numbers; they are modelled as exact fractions <<numerator,              *)
(* denominator>> in lowest terms with a positive denominator, so that the  *)
(* division by the scale k is a division.  Rounding of doubles is not      *)
(* modelled.                                                               *)
(***************************************************************************)
Abs(a) == IF a < 0 THEN -a ELSE a

RECURSIVE Gcd(_, _)
Gcd(a, b) == IF b = 0 THEN a ELSE Gcd(b, a % b)

Rat(n, d) ==
    LET g == Gcd(Abs(n), Abs(d))
        sign == IF d < 0 THEN -1 ELSE 1
    IN <<(sign * n) \div g, (sign * d) \div g>>

RInt(n) == <<n, 1>>

RAdd(p, q) ==
    LET g == Gcd(p[2], q[2])
    IN Rat(p[1] * (q[2] \div g) + q[1] * (p[2] \div g), (p[2] \div g) * q[2])

RNeg(p) == <<-p[1], p[2]>>

RSub(p, q) == RAdd(p, RNeg(q))

RMul(p, q) ==
    LET g1 == Gcd(Abs(p[1]), q[2])
        g2 == Gcd(Abs(q[1]), p[2])
    IN Rat((p[1] \div g1) * (q[1] \div g2), (p[2] \div g2) * (q[2] \div g1))

\* p / q for q # 0
RDiv(p, q) == RMul(p, Rat(q[2], q[1]))

\* a / b < c / d for b, d > 0, by whole parts and then the remainders, so
\* that no product is formed
RECURSIVE LessFraction(_, _, _, _)
LessFraction(a, b, c, d) ==
    IF a \div b # c \div d THEN a \div b < c \div d
    ELSE IF c % d = 0 THEN FALSE
    ELSE IF a % b = 0 THEN TRUE
    ELSE LessFraction(d, c % d, b, a % b)

RLess(p, q) == LessFraction(p[1], p[2], q[1], q[2])

RMax(p, q) == IF RLess(p, q) THEN q ELSE p
RMin(p, q) == IF RLess(q, p) THEN q ELSE p

\* null / undefined in place of a number
Unset == <<0, 0>>

(***************************************************************************)
(* The canvas, the cursor and the simulation nodes.                        *)
(***************************************************************************)
\* canvas.getBoundingClientRect()
Rect == [left |-> 20, top |-> 10, width |-> 200, height |-> 100]

\* cursor positions e.clientX, e.clientY, given by their offset from the
\* centre of the canvas
CursorDx == {0, 100}
CursorDy == {0}

ScreenPoints ==
    {[x |-> Rect.left + Rect.width \div 2 + dx,
      y |-> Rect.top + Rect.height \div 2 + dy] : dx \in CursorDx, dy \in CursorDy}

WorldPoint(x, y) == [x |-> RInt(x), y |-> RInt(y)]

\* nodes = graphData.nodes.map(n => ({...n})), which forceSimulation(nodes)
\* gives a position each
SimNode(n, pos) ==
    [id |-> n.id, chainId |-> n.chainId, radius |-> n.radius,
     x |-> pos.x, y |-> pos.y, fx |-> Unset, fy |-> Unset]

\* the export shown by the view: message 2 replies to message 1
ViewExport ==
    <<Message(1, "message", Null, FALSE, <<>>, FALSE),
      Message(2, "message", 1, FALSE, <<>>, FALSE)>>

\* positions of the two nodes when the user starts
Layouts == {<<WorldPoint(0, 0), WorldPoint(20, 0)>>}

\* positions the forces may move a free node to: within reach of the
\* cursor that is over the first node
SimPoints == {WorldPoint(5, 5)}

\* scales the view starts from: 1, and 5 (the upper limit of the zoom)
ViewZooms == {RInt(1), RInt(5)}

\* alphaTarget(0.3) while a node is dragged, alphaTarget(0) otherwise
AlphaDrag == Rat(3, 10)
AlphaRest == RInt(0)

\* x: (sx - rect.left - cx - t.x) / t.k, y: (sy - rect.top - cy - t.y) / t.k
ScreenToWorldAt(t, sx, sy) ==
    LET cx == Rat(Rect.width, 2)
        cy == Rat(Rect.height, 2)
    IN [x |-> RDiv(RSub(RSub(RSub(RInt(sx), RInt(Rect.left)), cx), t.x), t.k),
        y |-> RDiv(RSub(RSub(RSub(RInt(sy), RInt(Rect.top)), cy), t.y), t.k)]

screenToWorld(sx, sy) == ScreenToWorldAt(transformRef, sx, sy)

\* dx * dx + dy * dy < (n.radius + 4) * (n.radius + 4); radius in thousandths.
\* The sum is below the square of the reach only when |dx| and |dy| are
\* below the reach, and exactly then when one of them is 0: the squares are
\* formed in the remaining case only.
Hits(n, wx, wy) ==
    LET dx == RSub(wx, n.x)
        dy == RSub(wy, n.y)
        reach == RAdd(Rat(n.radius, 1000), RInt(4))
        Within(d) == RLess(d, reach) /\ RLess(RNeg(reach), d)
    IN /\ Within(dx)
       /\ Within(dy)
       /\ \/ dx[1] = 0
          \/ dy[1] = 0
          \/ RLess(RAdd(RMul(dx, dx), RMul(dy, dy)), RMul(reach, reach))

\* FindFrom that scans the array from its first node on
RECURSIVE FindFrom_Ascending(_, _, _, _)
FindFrom_Ascending(nodes, i, wx, wy) ==
    IF i < 1 THEN Null
    ELSE LET j == Len(nodes) + 1 - i
             n == nodes[j]
         IN IF n.x = Unset \/ n.y = Unset
            THEN FindFrom_Ascending(nodes, i - 1, wx, wy)
            ELSE IF Hits(n, wx, wy) THEN j
                 ELSE FindFrom_Ascending(nodes, i - 1, wx, wy)

\* for (let i = ...; i >= 0; i--) { if (n.x == null || n.y == null) continue; ... }
RECURSIVE FindFrom(_, _, _, _)
FindFrom(nodes, i, wx, wy) ==
    IF i < 1 THEN Null
    ELSE LET n == nodes[i]
         IN IF n.x = Unset \/ n.y = Unset THEN FindFrom(nodes, i - 1, wx, wy)
            ELSE IF Hits(n, wx, wy) THEN i
                 ELSE FindFrom(nodes, i - 1, wx, wy)

\* findNode(wx, wy): the index of the node returned, or Null
findNode(wx, wy) == FindFrom(nodesRef, Len(nodesRef), wx, wy)

\* the refs and states of ReplyGraphView as the hooks create them
ViewCreated ==
    /\ nodesRef = <<>>
    /\ transformRef = [x |-> RInt(0), y |-> RInt(0), k |-> RInt(1)]
    /\ draggingRef = Null
    /\ panningRef = FALSE
    /\ lastMouseRef = [x |-> 0, y |-> 0]
    /\ hoveredNode = Null
    /\ selectedNode = Null
    /\ selectedChain = Null
    /\ alphaTarget = AlphaRest
    /\ gesture = "none"
    /\ wheelCount = 0

(***************************************************************************)
(* State machine: the caller holds a message list and calls the builder.   *)
(***************************************************************************)
NoGraph == [nodes |-> <<>>, edges |-> <<>>, chains |-> <<>>,
            selfReplyCount |-> 0, crossChannelReplyCount |-> 0]

\* the locals of a call before it has reached its loops
NoLoop ==
    [starts |-> <<>>, edges |-> <<>>, nodes |-> <<>>,
     selfReplyCount |-> 0, crossChannelReplyCount |-> 0,
     visited |-> {}, chains |-> <<>>, chainId |-> 0, chainIdOf |-> <<>>,
     queue |-> <<>>, chainNodeIds |-> <<>>,
     chainEdges |-> <<>>, rootId |-> Null,
     maxDepth |-> 0, depthQueue |-> <<>>, depthVisited |-> {},
     shifted |-> <<>>, depthShifted |-> <<>>]

\* the caller's message list: a well-formed export of plain messages, or a
\* short list that may hold service messages and repeat an id
Init ==
    /\ \/ \E k \in 0..MaxMsgs : messages \in UniqueLists(PlainMessages, k)
       \/ \E k \in 0..MaxMixMsgs : messages \in [1..k -> MixedMessages]
    /\ includeCrossChannel = FALSE
    /\ graphData = NoGraph
    /\ pc = "idle"
    /\ loop = NoLoop
    /\ ViewCreated

\* Build whose counters are kept between calls
Build_KeepsCounts(flag) ==
    /\ includeCrossChannel' = flag
    /\ graphData' = [buildReplyGraph(messages, flag) EXCEPT
                        !.selfReplyCount = @ + graphData.selfReplyCount]
    /\ pc' = IF pc = "idle" THEN "returned" ELSE "returned_again"
    /\ UNCHANGED <<messages, loop>>
    /\ UNCHANGED viewVars

\* one call of buildReplyGraph(messages, flag); every collection and counter
\* of the function is local to the call
Build(flag) ==
    /\ includeCrossChannel' = flag
    /\ graphData' = buildReplyGraph(messages, flag)
    /\ pc' = IF pc = "idle" THEN "returned" ELSE "returned_again"
    /\ UNCHANGED <<messages, loop>>
    /\ UNCHANGED viewVars

Next == \E flag \in BOOLEAN : Build(flag)

Spec == Init /\ [][Next]_vars

\* the same calls on exports whose reactions and media markers vary
InitAttrs ==
    /\ \E k \in 0..MaxAttrMsgs : messages \in UniqueLists(AttrMessages, k)
    /\ includeCrossChannel = FALSE
    /\ graphData = NoGraph
    /\ pc = "idle"
    /\ loop = NoLoop
    /\ ViewCreated

SpecAttrs == InitAttrs /\ [][Next]_vars

(***************************************************************************)
(* One call of buildReplyGraph followed through its loops: the outer       *)
(* for (const startId of nodeIds), the while loop of the component search  *)
(* and the while loop of the depth search, one iteration per step.         *)
(* loop.starts is the part of nodeIds the for loop has not left yet;       *)
(* loop.shifted and loop.depthShifted record what queue.shift() and        *)
(* depthQueue.shift() returned, the latter for the chain at hand.          *)
(***************************************************************************)
InitLoops ==
    /\ \E k \in 0..MaxLoopMsgs : messages \in UniqueLists(LoopMessages, k)
    /\ includeCrossChannel = FALSE
    /\ graphData = NoGraph
    /\ pc = "idle"
    /\ loop = NoLoop
    /\ ViewCreated

\* lines 56-131: the scan of the replies, the nodes, the adjacency list
\* and the empty visited set and chain list
EnterLoops(flag) ==
    /\ pc = "idle"
    /\ LET scan == ScanReplies(messages, flag, ReplyMessages(messages), ScanInit)
       IN loop' = [NoLoop EXCEPT
                     !.starts = scan.nodeIds,
                     !.edges = scan.edges,
                     !.nodes = BuildNodes(messages, scan.nodeIds),
                     !.selfReplyCount = scan.selfReplyCount,
                     !.crossChannelReplyCount = scan.crossChannelReplyCount,
                     !.chainIdOf = [id \in Range(scan.nodeIds) |-> 0]]
    /\ includeCrossChannel' = flag
    /\ pc' = "for"
    /\ UNCHANGED <<messages, graphData>>
    /\ UNCHANGED viewVars

\* if (visited.has(startId)) continue
ForSkip ==
    /\ pc = "for"
    /\ loop.starts # <<>>
    /\ Head(loop.starts) \in loop.visited
    /\ loop' = [loop EXCEPT !.starts = Tail(@)]
    /\ UNCHANGED <<messages, includeCrossChannel, graphData, pc>>
    /\ UNCHANGED viewVars

\* chainId++; queue = [startId]; visited.add(startId); chainNodeIds = []
ForStart ==
    /\ pc = "for"
    /\ loop.starts # <<>>
    /\ Head(loop.starts) \notin loop.visited
    /\ LET st == BfsStart(Head(loop.starts), loop)
       IN loop' = [loop EXCEPT !.chainId = @ + 1,
                               !.queue = st.queue,
                               !.visited = st.visited,
                               !.chainNodeIds = st.chainNodeIds]
    /\ pc' = "while"
    /\ UNCHANGED <<messages, includeCrossChannel, graphData>>
    /\ UNCHANGED viewVars

\* one iteration of while (queue.length > 0)
WhileStep ==
    /\ pc = "while"
    /\ loop.queue # <<>>
    /\ LET st == ChainBfsStep(loop.edges, loop.chainId,
                    [queue |-> loop.queue, visited |-> loop.visited,
                     chainNodeIds |-> loop.chainNodeIds,
                     chainIdOf |-> loop.chainIdOf])
       IN loop' = [loop EXCEPT !.queue = st.queue,
                               !.visited = st.visited,
                               !.chainNodeIds = st.chainNodeIds,
                               !.chainIdOf = st.chainIdOf,
                               !.shifted = Append(@, Head(loop.queue))]
    /\ UNCHANGED <<messages, includeCrossChannel, graphData, pc>>
    /\ UNCHANGED viewVars

\* the queue is empty: chainEdges, roots, rootId and the start of the
\* depth search
WhileExit ==
    /\ pc = "while"
    /\ loop.queue = <<>>
    /\ LET chainEdges == ChainEdges(loop.edges, loop.chainNodeIds)
           rootId == RootId(loop.chainNodeIds, chainEdges)
           st == DepthStart(rootId)
       IN loop' = [loop EXCEPT !.chainEdges = chainEdges,
                               !.rootId = rootId,
                               !.maxDepth = st.maxDepth,
                               !.depthQueue = st.depthQueue,
                               !.depthVisited = st.depthVisited,
                               !.depthShifted = <<>>]
    /\ pc' = "depthWhile"
    /\ UNCHANGED <<messages, includeCrossChannel, graphData>>
    /\ UNCHANGED viewVars

\* one iteration of while (depthQueue.length > 0)
DepthStep ==
    /\ pc = "depthWhile"
    /\ loop.depthQueue # <<>>
    /\ LET st == DepthBfsStep(loop.chainEdges,
                    [maxDepth |-> loop.maxDepth,
                     depthQueue |-> loop.depthQueue,
                     depthVisited |-> loop.depthVisited])
       IN loop' = [loop EXCEPT !.maxDepth = st.maxDepth,
                               !.depthQueue = st.depthQueue,
                               !.depthVisited = st.depthVisited,
                               !.depthShifted = Append(@, Head(loop.depthQueue)[1])]
    /\ UNCHANGED <<messages, includeCrossChannel, graphData, pc>>
    /\ UNCHANGED viewVars

\* the depth queue is empty: chains.push({...}) and the next startId
DepthExit ==
    /\ pc = "depthWhile"
    /\ loop.depthQueue = <<>>
    /\ loop' = [loop EXCEPT
                  !.chains = Append(@, [id |-> loop.chainId,
                                        nodes |-> loop.chainNodeIds,
                                        edges |-> loop.chainEdges,
                                        rootId |-> loop.rootId,
                                        depth |-> loop.maxDepth]),
                  !.starts = Tail(@)]
    /\ pc' = "for"
    /\ UNCHANGED <<messages, includeCrossChannel, graphData>>
    /\ UNCHANGED viewVars

\* nodeIds is exhausted: chains.sort(...) and return
Return ==
    /\ pc = "for"
    /\ loop.starts = <<>>
    /\ graphData' = [nodes |-> WithChainIds(loop.nodes, loop.chainIdOf),
                     edges |-> loop.edges,
                     chains |-> SortChains(loop.chains),
                     selfReplyCount |-> loop.selfReplyCount,
                     crossChannelReplyCount |-> loop.crossChannelReplyCount]
    /\ pc' = "returned"
    /\ UNCHANGED <<messages, includeCrossChannel, loop>>
    /\ UNCHANGED viewVars

\* the steps inside a call
CallSteps ==
    \/ ForSkip
    \/ ForStart
    \/ WhileStep
    \/ WhileExit
    \/ DepthStep
    \/ DepthExit
    \/ Return

NextLoops ==
    \/ \E flag \in BOOLEAN : EnterLoops(flag)
    \/ CallSteps

\* the call is synchronous: once entered it runs on as long as it has a
\* next iteration; whether the caller calls at all is left open
SpecLoops == InitLoops /\ [][NextLoops]_vars /\ WF_vars(CallSteps)

(***************************************************************************)
(* The canvas of ReplyGraphView: the mouse handlers, the chain list and    *)
(* the simulation.  The graph of ViewExport has been built and the         *)
(* simulation set up; nodes are referred to by their index in nodesRef.    *)
(***************************************************************************)
InitView ==
    /\ messages = ViewExport
    /\ includeCrossChannel = FALSE
    /\ graphData = buildReplyGraph(ViewExport, FALSE)
    /\ pc = "returned"
    /\ loop = NoLoop
    /\ \E layout \in Layouts :
          nodesRef = [i \in 1..Len(graphData.nodes) |->
                        SimNode(graphData.nodes[i], layout[i])]
    /\ \E k \in ViewZooms : transformRef = [x |-> RInt(0), y |-> RInt(0), k |-> k]
    /\ draggingRef = Null
    /\ panningRef = FALSE
    /\ lastMouseRef = [x |-> 0, y |-> 0]
    /\ hoveredNode = Null
    /\ selectedNode = Null
    /\ selectedChain = Null
    /\ alphaTarget = AlphaRest
    /\ gesture = "none"
    /\ wheelCount = 0

handleMouseDown(e) ==
    LET w == screenToWorld(e.x, e.y)
        node == findNode(w.x, w.y)
    IN /\ IF node # Null
          THEN /\ draggingRef' = node
               /\ nodesRef' = [nodesRef EXCEPT ![node].fx = nodesRef[node].x,
                                               ![node].fy = nodesRef[node].y]
               /\ alphaTarget' = AlphaDrag
               /\ UNCHANGED panningRef
          ELSE /\ panningRef' = TRUE
               /\ UNCHANGED <<draggingRef, nodesRef, alphaTarget>>
       /\ lastMouseRef' = e
       /\ gesture' = IF node # Null THEN "node" ELSE "pan"
       /\ UNCHANGED <<transformRef, hoveredNode, selectedNode, selectedChain,
                      wheelCount>>
       /\ UNCHANGED graphVars

\* handleMouseMove that pins the dragged node at the client coordinates
handleMouseMove_ClientCoordinates(e) ==
    /\ draggingRef # Null
    /\ nodesRef' = [nodesRef EXCEPT ![draggingRef].fx = RInt(e.x),
                                    ![draggingRef].fy = RInt(e.y)]
    /\ UNCHANGED <<transformRef, draggingRef, panningRef, lastMouseRef,
                   hoveredNode, selectedNode, selectedChain, alphaTarget,
                   gesture, wheelCount>>
    /\ UNCHANGED graphVars

\* a pan is followed while the offset stays within MaxPan
handleMouseMove(e) ==
    /\ IF draggingRef # Null
       THEN LET w == screenToWorld(e.x, e.y)
            IN /\ nodesRef' = [nodesRef EXCEPT ![draggingRef].fx = w.x,
                                               ![draggingRef].fy = w.y]
               /\ UNCHANGED <<transformRef, lastMouseRef, hoveredNode>>
       ELSE IF panningRef
       THEN LET dx == e.x - lastMouseRef.x
                dy == e.y - lastMouseRef.y
                x == RAdd(transformRef.x, RInt(dx))
                y == RAdd(transformRef.y, RInt(dy))
            IN /\ ~RLess(RInt(MaxPan), x) /\ ~RLess(x, RInt(-MaxPan))
               /\ ~RLess(RInt(MaxPan), y) /\ ~RLess(y, RInt(-MaxPan))
               /\ transformRef' = [transformRef EXCEPT !.x = x, !.y = y]
               /\ lastMouseRef' = e
               /\ UNCHANGED <<nodesRef, hoveredNode>>
       ELSE LET w == screenToWorld(e.x, e.y)
            IN /\ hoveredNode' = findNode(w.x, w.y)
               /\ UNCHANGED <<nodesRef, transformRef, lastMouseRef>>
    /\ UNCHANGED <<draggingRef, panningRef, selectedNode, selectedChain,
                   alphaTarget, gesture, wheelCount>>
    /\ UNCHANGED graphVars

\* onMouseUp and onMouseLeave
handleMouseUp ==
    /\ IF draggingRef # Null
       THEN /\ nodesRef' = [nodesRef EXCEPT ![draggingRef].fx = Unset,
                                            ![draggingRef].fy = Unset]
            /\ alphaTarget' = AlphaRest
            /\ draggingRef' = Null
       ELSE UNCHANGED <<nodesRef, alphaTarget, draggingRef>>
    /\ panningRef' = FALSE
    /\ UNCHANGED <<transformRef, lastMouseRef, hoveredNode, selectedNode,
                   selectedChain, gesture, wheelCount>>
    /\ UNCHANGED graphVars

\* the gesture after a click has followed its mouse-down
Clicked(g) ==
    IF g \in {"node", "node+click"} THEN "node+click"
    ELSE IF g \in {"pan", "pan+click"} THEN "pan+click"
    ELSE g

\* selectedNode holds a node object: it is named by the node list it was
\* taken from (the one built with or without cross-channel replies) and
\* its index in that list, which has at most two nodes per message
NodeRef(flag, i) == IF flag THEN 2 * Len(messages) + i ELSE i

\* node ? setSelectedNode(node) : (setSelectedNode(null), setSelectedChain(null))
handleClick(e) ==
    LET w == screenToWorld(e.x, e.y)
        node == findNode(w.x, w.y)
    IN /\ IF node # Null
          THEN selectedNode' = NodeRef(includeCrossChannel, node)
               /\ UNCHANGED selectedChain
          ELSE selectedNode' = Null /\ selectedChain' = Null
       /\ gesture' = Clicked(gesture)
       /\ UNCHANGED <<nodesRef, transformRef, draggingRef, panningRef,
                      lastMouseRef, hoveredNode, alphaTarget, wheelCount>>
       /\ UNCHANGED graphVars

\* ChainListPanel, shown while no node is selected:
\* onChainSelect = id => setSelectedChain(selectedChain === id ? null : id)
onChainSelect(id) ==
    /\ selectedNode = Null
    /\ selectedChain' = IF selectedChain = id THEN Null ELSE id
    /\ UNCHANGED <<nodesRef, transformRef, draggingRef, panningRef,
                   lastMouseRef, hoveredNode, selectedNode, alphaTarget,
                   gesture, wheelCount>>
    /\ UNCHANGED graphVars

\* SelectedNodePanel onClose, and the Escape key while a node is selected
closeSelectedNode ==
    /\ selectedNode # Null
    /\ selectedNode' = Null
    /\ UNCHANGED <<nodesRef, transformRef, draggingRef, panningRef,
                   lastMouseRef, hoveredNode, selectedChain, alphaTarget,
                   gesture, wheelCount>>
    /\ UNCHANGED graphVars

\* where a tick of the simulation leaves a coordinate: at the pin when the
\* node is pinned in it, otherwise where the forces move it
Ticked(pin, moved) == IF pin # Unset THEN pin ELSE moved

\* one tick of the d3-force simulation: a node with fx (fy) set is put at
\* fx (fy); a free node stays or moves to a point the forces choose
Tick ==
    /\ \E moving \in SUBSET (1..Len(nodesRef)) :
       \E target \in [moving -> SimPoints] :
          nodesRef' = [i \in 1..Len(nodesRef) |->
              LET n == nodesRef[i]
                  to == IF i \in moving THEN target[i] ELSE [x |-> n.x, y |-> n.y]
              IN [n EXCEPT !.x = Ticked(n.fx, to.x), !.y = Ticked(n.fy, to.y)]]
    /\ UNCHANGED <<transformRef, draggingRef, panningRef, lastMouseRef,
                   hoveredNode, selectedNode, selectedChain, alphaTarget,
                   gesture, wheelCount>>
    /\ UNCHANGED graphVars

\* the pointer gestures on the canvas while the simulation runs
NextView ==
    \/ \E e \in ScreenPoints : handleMouseDown(e)
    \/ \E e \in ScreenPoints : handleMouseMove(e)
    \/ handleMouseUp
    \/ Tick

SpecView == InitView /\ [][NextView]_vars

\* the pointer gestures and the selection: clicks on the canvas, the chain
\* list and the panel of the selected node
NextSelect ==
    \/ \E e \in ScreenPoints : handleMouseDown(e)
    \/ \E e \in ScreenPoints : handleMouseMove(e)
    \/ handleMouseUp
    \/ \E e \in ScreenPoints : handleClick(e)
    \/ \E c \in 1..Len(graphData.chains) : onChainSelect(graphData.chains[c].id)
    \/ closeSelectedNode

SpecSelect == InitView /\ [][NextSelect]_vars

(***************************************************************************)
(* findNode on node arrays of every kind: nodes without x, without y,      *)
(* nodes on the cursor and nodes 10 beside it, of radius 6 and 20, seen    *)
(* through a view that is panned or not.  The cursor moves with no button  *)
(* held, so that handleMouseMove stores what findNode returns.             *)
(***************************************************************************)
FindPositions ==
    {[x |-> Unset, y |-> Unset], [x |-> RInt(0), y |-> Unset],
     WorldPoint(0, 0), WorldPoint(10, 0)}

FindRadii == {6000, 20000}

FindPans == {RInt(0), RInt(-20)}

InitFind ==
    /\ messages = <<>>
    /\ includeCrossChannel = FALSE
    /\ graphData = NoGraph
    /\ pc = "idle"
    /\ loop = NoLoop
    /\ \E k \in 0..MaxFindNodes :
       \E pos \in [1..k -> FindPositions] :
       \E radius \in [1..k -> FindRadii] :
          nodesRef = [i \in 1..k |->
                        [id |-> i, chainId |-> 1, radius |-> radius[i],
                         x |-> pos[i].x, y |-> pos[i].y,
                         fx |-> Unset, fy |-> Unset]]
    /\ \E x \in FindPans : transformRef = [x |-> x, y |-> RInt(0), k |-> RInt(1)]
    /\ draggingRef = Null
    /\ panningRef = FALSE
    /\ lastMouseRef = [x |-> 0, y |-> 0]
    /\ hoveredNode = Null
    /\ selectedNode = Null
    /\ selectedChain = Null
    /\ alphaTarget = AlphaRest
    /\ gesture = "none"
    /\ wheelCount = 0

NextFind == \E e \in ScreenPoints : handleMouseMove(e)

SpecFind == InitFind /\ [][NextFind]_vars

(***************************************************************************)
(* The wheel.  The view starts from a scale and a pan offset it can have:  *)
(* 1, the limits 0.1 and 5, and 0.108 and 4.968, each one step from a      *)
(* limit (0.1 * 1.08 = 0.108; 5 * 0.92 * 1.08 = 4.968).                    *)
(***************************************************************************)
WheelZooms == {Rat(1, 10), Rat(27, 250), RInt(1), Rat(621, 125), RInt(5)}

WheelPans == {WorldPoint(0, 0), WorldPoint(20, 10)}

\* e.deltaY of a wheel event
WheelDeltas == {-100, 0, 100}

InitWheel ==
    /\ messages = ViewExport
    /\ includeCrossChannel = FALSE
    /\ graphData = buildReplyGraph(ViewExport, FALSE)
    /\ pc = "returned"
    /\ loop = NoLoop
    /\ \E layout \in Layouts :
          nodesRef = [i \in 1..Len(graphData.nodes) |->
                        SimNode(graphData.nodes[i], layout[i])]
    /\ \E k \in WheelZooms : \E pan \in WheelPans :
          transformRef = [x |-> pan.x, y |-> pan.y, k |-> k]
    /\ draggingRef = Null
    /\ panningRef = FALSE
    /\ lastMouseRef = [x |-> 0, y |-> 0]
    /\ hoveredNode = Null
    /\ selectedNode = Null
    /\ selectedChain = Null
    /\ alphaTarget = AlphaRest
    /\ gesture = "none"
    /\ wheelCount = 0

\* handleWheel that scales the offset by delta also when the scale is cut
handleWheel_DeltaRatio(e, deltaY) ==
    LET delta == IF deltaY > 0 THEN Rat(23, 25) ELSE Rat(27, 25)
        t == transformRef
        newK == RMax(Rat(1, 10), RMin(RInt(5), RMul(t.k, delta)))
        mx == RSub(RInt(e.x - Rect.left), Rat(Rect.width, 2))
        my == RSub(RInt(e.y - Rect.top), Rat(Rect.height, 2))
    IN /\ wheelCount < MaxWheels
       /\ transformRef' =
             [x |-> RSub(mx, RMul(RSub(mx, t.x), delta)),
              y |-> RSub(my, RMul(RSub(my, t.y), delta)),
              k |-> newK]
       /\ wheelCount' = wheelCount + 1
       /\ UNCHANGED <<nodesRef, draggingRef, panningRef, lastMouseRef,
                      hoveredNode, selectedNode, selectedChain, alphaTarget,
                      gesture>>
       /\ UNCHANGED graphVars

\* handleWheel without Math.max(0.1, Math.min(5, ...))
handleWheel_Unclamped(e, deltaY) ==
    LET delta == IF deltaY > 0 THEN Rat(23, 25) ELSE Rat(27, 25)
        t == transformRef
        newK == RMul(t.k, delta)
        mx == RSub(RInt(e.x - Rect.left), Rat(Rect.width, 2))
        my == RSub(RInt(e.y - Rect.top), Rat(Rect.height, 2))
    IN /\ wheelCount < MaxWheels
       /\ transformRef' =
             [x |-> RSub(mx, RMul(RSub(mx, t.x), RDiv(newK, t.k))),
              y |-> RSub(my, RMul(RSub(my, t.y), RDiv(newK, t.k))),
              k |-> newK]
       /\ wheelCount' = wheelCount + 1
       /\ UNCHANGED <<nodesRef, draggingRef, panningRef, lastMouseRef,
                      hoveredNode, selectedNode, selectedChain, alphaTarget,
                      gesture>>
       /\ UNCHANGED graphVars

\* delta = e.deltaY > 0 ? 0.92 : 1.08; newK = max(0.1, min(5, k * delta));
\* t.x = mx - (mx - t.x) * (newK / t.k), the same for y; t.k = newK
handleWheel(e, deltaY) ==
    LET delta == IF deltaY > 0 THEN Rat(23, 25) ELSE Rat(27, 25)
        t == transformRef
        newK == RMax(Rat(1, 10), RMin(RInt(5), RMul(t.k, delta)))
        mx == RSub(RInt(e.x - Rect.left), Rat(Rect.width, 2))
        my == RSub(RInt(e.y - Rect.top), Rat(Rect.height, 2))
    IN /\ wheelCount < MaxWheels
       /\ transformRef' =
             [x |-> RSub(mx, RMul(RSub(mx, t.x), RDiv(newK, t.k))),
              y |-> RSub(my, RMul(RSub(my, t.y), RDiv(newK, t.k))),
              k |-> newK]
       /\ wheelCount' = wheelCount + 1
       /\ UNCHANGED <<nodesRef, draggingRef, panningRef, lastMouseRef,
                      hoveredNode, selectedNode, selectedChain, alphaTarget,
                      gesture>>
       /\ UNCHANGED graphVars

NextWheel ==
    \E e \in ScreenPoints : \E deltaY \in WheelDeltas : handleWheel(e, deltaY)

SpecWheel == InitWheel /\ [][NextWheel]_vars

\* transformRef.current = { x: 0, y: 0, k: 1 }
resetView ==
    /\ transformRef' = [x |-> RInt(0), y |-> RInt(0), k |-> RInt(1)]
    /\ UNCHANGED <<nodesRef, draggingRef, panningRef, lastMouseRef,
                   hoveredNode, selectedNode, selectedChain, alphaTarget,
                   gesture, wheelCount>>
    /\ UNCHANGED graphVars

\* the view before a sequence of wheel, pan, drag and reset events: at one
\* of the scales of WheelZooms, not panned
InitZoom ==
    /\ messages = ViewExport
    /\ includeCrossChannel = FALSE
    /\ graphData = buildReplyGraph(ViewExport, FALSE)
    /\ pc = "returned"
    /\ loop = NoLoop
    /\ \E layout \in Layouts :
          nodesRef = [i \in 1..Len(graphData.nodes) |->
                        SimNode(graphData.nodes[i], layout[i])]
    /\ \E k \in WheelZooms :
          transformRef = [x |-> RInt(0), y |-> RInt(0), k |-> k]
    /\ draggingRef = Null
    /\ panningRef = FALSE
    /\ lastMouseRef = [x |-> 0, y |-> 0]
    /\ hoveredNode = Null
    /\ selectedNode = Null
    /\ selectedChain = Null
    /\ alphaTarget = AlphaRest
    /\ gesture = "none"
    /\ wheelCount = 0

\* wheel, drag, pan and the reset button in any order
NextZoom ==
    \/ /\ wheelCount < MaxZoomWheels
       /\ \E e \in ScreenPoints : \E deltaY \in WheelDeltas : handleWheel(e, deltaY)
    \/ \E e \in ScreenPoints : handleMouseDown(e)
    \/ \E e \in ScreenPoints : handleMouseMove(e)
    \/ handleMouseUp
    \/ resetView

SpecZoom == InitZoom /\ [][NextZoom]_vars

(***************************************************************************)
(* The view renders: useMemo calls buildReplyGraph(messages,               *)
(* includeCrossChannel) and, graphData being new, the effect that sets up  *)
(* the simulation runs.  The first render has the flag false; the          *)
(* cross-channel button negates it.                                        *)
(***************************************************************************)
\* the position forceSimulation(nodes) gives node i is stood in for by a
\* point of a row, 20 apart
Placed(i) == WorldPoint(20 * (i - 1), 0)

\* if (graphData.nodes.length === 0) return
\* nodesRef.current = graphData.nodes.map((n) => ({ ...n })); forceSimulation(nodes)
SetupSimulation(g) ==
    IF Len(g.nodes) = 0 THEN nodesRef
    ELSE [i \in 1..Len(g.nodes) |-> SimNode(g.nodes[i], Placed(i))]

\* graphData.nodes.length === 0 ? <p>No ... found</p> : <canvas ... />
EmptyStateShown == Len(graphData.nodes) = 0

Render(flag) ==
    /\ includeCrossChannel' = flag
    /\ graphData' = buildReplyGraph(messages, flag)
    /\ pc' = IF pc = "idle" THEN "returned" ELSE "returned_again"
    /\ nodesRef' = SetupSimulation(graphData')
    /\ UNCHANGED <<messages, loop>>
    /\ UNCHANGED <<transformRef, draggingRef, panningRef, lastMouseRef,
                   hoveredNode, selectedNode, selectedChain, alphaTarget,
                   gesture, wheelCount>>

\* useState(false): the first render
Mount == pc = "idle" /\ Render(FALSE)

\* onClick={() => setIncludeCrossChannel((v) => !v)}
toggleCrossChannel == pc # "idle" /\ Render(~includeCrossChannel)

NextMount == Mount \/ toggleCrossChannel

SpecMount == InitAttrs /\ [][NextMount]_vars

(***************************************************************************)
(* Selections and the cross-channel toggle.  The toggle rebuilds graphData *)
(* and the node array; selectedNode and selectedChain are state of the     *)
(* component and no effect writes them when graphData changes.             *)
(***************************************************************************)
\* the node object selectedNode holds, with the id and the chainId it got
\* when its node list was built
SelectedNodeObject ==
    LET cross == selectedNode > 2 * Len(messages)
        i == IF cross THEN selectedNode - 2 * Len(messages) ELSE selectedNode
    IN buildReplyGraph(messages, cross).nodes[i]

\* graphData.chains.find((c) => c.id === id): the place of the chain in
\* graphData.chains, or Null
FindChain(id) ==
    LET found == {c \in 1..Len(graphData.chains) : graphData.chains[c].id = id}
    IN IF found = {} THEN Null
       ELSE CHOOSE c \in found : \A d \in found : c <= d

\* ChainListPanel lists the nodes of the active chain, the chain of
\* graphData whose id is selectedChain; onNodeSelect = setSelectedNode
onNodeSelect(i) ==
    /\ selectedNode = Null
    /\ selectedChain # Null
    /\ FindChain(selectedChain) # Null
    /\ \E j \in 1..Len(graphData.chains[FindChain(selectedChain)].nodes) :
          graphData.chains[FindChain(selectedChain)].nodes[j] =
              graphData.nodes[i].id
    /\ selectedNode' = NodeRef(includeCrossChannel, i)
    /\ UNCHANGED <<nodesRef, transformRef, draggingRef, panningRef,
                   lastMouseRef, hoveredNode, selectedChain, alphaTarget,
                   gesture, wheelCount>>
    /\ UNCHANGED graphVars

\* the canvas is rendered when graphData has nodes, the side panel always
NextToggle ==
    \/ Mount
    \/ toggleCrossChannel
    \/ /\ pc # "idle"
       /\ ~EmptyStateShown
       /\ \E e \in ScreenPoints : handleClick(e)
    \/ /\ pc # "idle"
       /\ \E i \in 1..Len(graphData.nodes) : onNodeSelect(i)
    \/ /\ pc # "idle"
       /\ \E c \in 1..Len(graphData.chains) : onChainSelect(graphData.chains[c].id)
    \/ /\ pc # "idle"
       /\ closeSelectedNode

SpecToggle == InitLoops /\ [][NextToggle]_vars

(***************************************************************************)
(* Vocabulary of the properties.                                           *)
(***************************************************************************)
Returned == pc \in {"returned", "returned_again"}

NodeIdSet(g) == {g.nodes[i].id : i \in 1..Len(g.nodes)}

EdgeEnds(g) == {g.edges[i].source : i \in 1..Len(g.edges)}
               \cup {g.edges[i].target : i \in 1..Len(g.edges)}

InputIds == {messages[i].id : i \in 1..Len(messages)}

\* the indices of the chains that list node id
ChainsListing(g, id) ==
    {k \in 1..Len(g.chains) : id \in Range(g.chains[k].nodes)}

NoDuplicates(s) == \A i, j \in 1..Len(s) : s[i] = s[j] => i = j

(***************************************************************************)
(* C1: every edge returned by buildReplyGraph has its source id and its    *)
(* target id among the ids of the returned nodes, phantom nodes included,  *)
(* for either value of includeCrossChannel.                                *)
(***************************************************************************)
C1_NodeSetCompleteness ==
    Returned =>
        \A i \in 1..Len(graphData.edges) :
            /\ graphData.edges[i].source \in NodeIdSet(graphData)
            /\ graphData.edges[i].target \in NodeIdSet(graphData)

\* an edge whose source is a phantom node, next to an in-export edge
C1_Witness ==
    /\ Returned
    /\ includeCrossChannel
    /\ \E i, j \in 1..Len(graphData.edges) :
          /\ graphData.edges[i].source \notin InputIds
          /\ graphData.edges[j].source \in InputIds

(***************************************************************************)
(* C2: the chains partition the node set: every node is listed by exactly  *)
(* one chain, no chain lists a node twice or lists an id that is not a     *)
(* node, and a node's chainId is the id of the chain that lists it.        *)
(***************************************************************************)
C2_ChainPartition ==
    Returned =>
        /\ \A i \in 1..Len(graphData.nodes) :
              LET n == graphData.nodes[i]
              IN /\ Cardinality(ChainsListing(graphData, n.id)) = 1
                 /\ \A k \in ChainsListing(graphData, n.id) :
                       graphData.chains[k].id = n.chainId
        /\ \A k \in 1..Len(graphData.chains) :
              /\ NoDuplicates(graphData.chains[k].nodes)
              /\ Range(graphData.chains[k].nodes) \subseteq NodeIdSet(graphData)

\* two chains, found interleaved: a node of the first chain is registered
\* after the second chain's start node
C2_Witness ==
    /\ Returned
    /\ Len(graphData.chains) = 2
    /\ \E i, j \in 1..Len(graphData.nodes) :
          /\ i < j
          /\ graphData.nodes[i].chainId = 2
          /\ graphData.nodes[j].chainId = 1

(***************************************************************************)
(* Connected components of the undirected version of the edge list,        *)
(* computed as a fixed point, independently of the breadth-first search.   *)
(***************************************************************************)
\* a and b are the two ends of some edge
Linked(g, a, b) ==
    \E i \in 1..Len(g.edges) :
        \/ g.edges[i].source = a /\ g.edges[i].target = b
        \/ g.edges[i].source = b /\ g.edges[i].target = a

RECURSIVE Closure(_, _)
Closure(g, S) ==
    LET T == S \cup {b \in NodeIdSet(g) \cup EdgeEnds(g) :
                        \E a \in S : Linked(g, a, b)}
    IN IF T = S THEN S ELSE Closure(g, T)

\* the ids joined to id by an undirected path of edges
Component(g, id) == Closure(g, {id})

Components(g) == {Component(g, id) : id \in NodeIdSet(g)}

ChainNodeSets(g) == {Range(g.chains[k].nodes) : k \in 1..Len(g.chains)}

\* the edge list is two edges over four distinct ids
TwoDisjointPairs(g) ==
    /\ Len(g.edges) = 2
    /\ Cardinality(EdgeEnds(g)) = 4

(***************************************************************************)
(* C3: the chains are exactly the connected components of the undirected   *)
(* version of the edge list: two nodes are in the same chain iff an        *)
(* undirected path of edges joins them, there are as many chains as        *)
(* components, and two reply pairs A->B and X->Y with no cross-link give   *)
(* exactly 2 chains of 2 nodes each.                                       *)
(***************************************************************************)
C3_ChainsAreComponents ==
    Returned =>
        /\ ChainNodeSets(graphData) = Components(graphData)
        /\ Len(graphData.chains) = Cardinality(Components(graphData))
        /\ \A a, b \in NodeIdSet(graphData) :
              (\E k \in 1..Len(graphData.chains) :
                    {a, b} \subseteq Range(graphData.chains[k].nodes))
              <=> b \in Component(graphData, a)
        /\ TwoDisjointPairs(graphData) =>
              /\ Len(graphData.chains) = 2
              /\ \A k \in 1..2 : Len(graphData.chains[k].nodes) = 2

\* the scenario A->B, X->Y
C3_Witness ==
    /\ Returned
    /\ TwoDisjointPairs(graphData)
    /\ Len(graphData.chains) = 2

(***************************************************************************)
(* Roots and directed paths of a chain, stated on the returned data.       *)
(***************************************************************************)
\* the returned edges with both ends in chain c
IntraEdges(g, c) ==
    {e \in Range(g.edges) :
        e.source \in Range(c.nodes) /\ e.target \in Range(c.nodes)}

\* positions in c.nodes (discovery order) of the members without an
\* incoming intra-chain edge
NoIncomingAt(g, c) ==
    {i \in 1..Len(c.nodes) :
        \A e \in IntraEdges(g, c) : e.target # c.nodes[i]}

FirstOf(S) == CHOOSE i \in S : \A j \in S : i <= j

Children(E, id) == {e.target : e \in {d \in E : d.source = id}}

\* the ids reached from the ids of S by one or more directed edges of E
RECURSIVE Descendants(_, _, _)
Descendants(E, S, acc) ==
    LET next == UNION {Children(E, id) : id \in S} \ acc
    IN IF next = {} THEN acc ELSE Descendants(E, next, acc \cup next)

Acyclic(E, ids) == \A id \in ids : id \notin Descendants(E, {id}, {})

MaxOf(S) == CHOOSE x \in S : \A y \in S : y <= x

\* length in edges of the longest directed path of E that starts at id
RECURSIVE LongestFrom(_, _)
LongestFrom(E, id) ==
    IF Children(E, id) = {} THEN 0
    ELSE 1 + MaxOf({LongestFrom(E, ch) : ch \in Children(E, id)})

\* chain c is a rooted tree: message ids are unique and no reply cycle
RootedTree(g, c) ==
    /\ UniqueIds(messages)
    /\ Acyclic(IntraEdges(g, c), Range(c.nodes))

(***************************************************************************)
(* C4: for every chain that has a member with no incoming intra-chain      *)
(* edge, rootId is the first such member in discovery order, so rootId is  *)
(* never the target of an edge of the chain; for every choice of integer   *)
(* message ids, id 0 included.                                             *)
(***************************************************************************)
C4_RootHasNoIncomingEdge ==
    Returned =>
        \A k \in 1..Len(graphData.chains) :
            LET c == graphData.chains[k]
                cand == NoIncomingAt(graphData, c)
            IN cand # {} =>
                 /\ c.rootId = c.nodes[FirstOf(cand)]
                 /\ \A e \in IntraEdges(graphData, c) : e.target # c.rootId

(***************************************************************************)
(* C5: for every chain that is a rooted tree (unique message ids, no       *)
(* cycle), rootId is the member nobody in the chain is a reply target of   *)
(* (A in A->B->C->D, A in A->B, A->C) and depth is the length in edges of  *)
(* the longest directed path from it to a leaf (3 and 1 in those cases).   *)
(***************************************************************************)
C5_DepthIsLongestRootToLeafPath ==
    Returned =>
        \A k \in 1..Len(graphData.chains) :
            LET c == graphData.chains[k]
                E == IntraEdges(graphData, c)
            IN RootedTree(graphData, c) =>
                 /\ NoIncomingAt(graphData, c) # {}
                 /\ \A i \in NoIncomingAt(graphData, c) :
                       /\ c.rootId = c.nodes[i]
                       /\ c.depth = LongestFrom(E, c.nodes[i])

(***************************************************************************)
(* Reply relationships of the input, stated on the message list.           *)
(***************************************************************************)
\* positions of the messages of type "message" that carry a reply target
ReplyAt ==
    {i \in 1..Len(messages) :
        messages[i].type = "message" /\ messages[i].reply_to_message_id # Null}

\* ... whose target id is the id of a message of the input
InExportAt == {i \in ReplyAt : messages[i].reply_to_message_id \in InputIds}

\* ... whose target id is absent from the input
DanglingAt == {i \in ReplyAt : messages[i].reply_to_message_id \notin InputIds}

\* the edge of the reply at position i
ReplyEdge(i) ==
    [source |-> messages[i].reply_to_message_id, target |-> messages[i].id]

\* ids that take part in an in-export reply
InExportEnds ==
    {messages[i].id : i \in InExportAt}
    \cup {messages[i].reply_to_message_id : i \in InExportAt}

(***************************************************************************)
(* C6: selfReplyCount is the number of messages of type "message" with a   *)
(* non-null reply target that is in the message index, and                 *)
(* crossChannelReplyCount the number of those whose target is absent from  *)
(* it; service messages and messages without a reply target count in       *)
(* neither.                                                                *)
(***************************************************************************)
C6_ReplyCounts ==
    Returned =>
        /\ graphData.selfReplyCount = Cardinality(InExportAt)
        /\ graphData.crossChannelReplyCount = Cardinality(DanglingAt)

\* a service message with a reply target next to a counted reply
C6_Witness ==
    /\ Returned
    /\ \E i \in 1..Len(messages) :
          /\ messages[i].type = "service"
          /\ messages[i].reply_to_message_id # Null
    /\ graphData.selfReplyCount + graphData.crossChannelReplyCount = 1

(***************************************************************************)
(* C7: crossChannelReplyCount is the same with includeCrossChannel false   *)
(* and true; the flag only decides whether dangling replies become nodes   *)
(* and edges.                                                              *)
(***************************************************************************)
C7_CrossCountIgnoresFlag ==
    Returned =>
        graphData.crossChannelReplyCount =
            buildReplyGraph(messages, ~includeCrossChannel).crossChannelReplyCount

\* a dangling reply that the call left out of the graph and still counted
C7_Witness ==
    /\ Returned
    /\ ~includeCrossChannel
    /\ graphData.crossChannelReplyCount = 2
    /\ graphData.selfReplyCount = 1

(***************************************************************************)
(* C8: the edge list holds exactly one edge {source: replied-to id,        *)
(* target: replying id} per in-export reply, plus one per dangling reply   *)
(* iff includeCrossChannel is true; with the flag false a message whose    *)
(* only reply relationship is dangling gives no node and no edge (a single *)
(* dangling reply gives nodes = [], edges = [], counts 0 and 1).           *)
(***************************************************************************)
C8_EdgesAreTheReplies ==
    Returned =>
        LET emitted == IF includeCrossChannel THEN ReplyAt ELSE InExportAt
        IN /\ Len(graphData.edges) = Cardinality(emitted)
           /\ \A e \in Range(graphData.edges) \cup {ReplyEdge(i) : i \in emitted} :
                 Cardinality({j \in 1..Len(graphData.edges) : graphData.edges[j] = e})
                 = Cardinality({i \in emitted : ReplyEdge(i) = e})
           /\ ~includeCrossChannel =>
                 \A i \in DanglingAt :
                     messages[i].id \notin InExportEnds =>
                        /\ messages[i].id \notin NodeIdSet(graphData)
                        /\ messages[i].id \notin EdgeEnds(graphData)
           /\ (~includeCrossChannel /\ Len(messages) = 1 /\ DanglingAt = {1}) =>
                 /\ graphData.nodes = <<>>
                 /\ graphData.edges = <<>>
                 /\ graphData.crossChannelReplyCount = 1
                 /\ graphData.selfReplyCount = 0

\* the scenario [{id:5, reply_to_message_id:999}] with the flag false
C8_Witness ==
    /\ Returned
    /\ ~includeCrossChannel
    /\ Len(messages) = 1
    /\ DanglingAt = {1}

(***************************************************************************)
(* C9: a returned node has isForwardedReply = true iff its id is not the   *)
(* id of a message of the input; such a node has reactionCount 0 and the   *)
(* epoch-zero date; with includeCrossChannel = true a single dangling      *)
(* reply {id:5, reply_to_message_id:999} gives the nodes 5 and 999 and the *)
(* edge {source:999, target:5}.                                            *)
(***************************************************************************)
C9_PhantomFlag ==
    Returned =>
        /\ \A i \in 1..Len(graphData.nodes) :
              LET n == graphData.nodes[i]
              IN /\ n.isForwardedReply <=> n.id \notin InputIds
                 /\ n.isForwardedReply =>
                       n.reactionCount = 0 /\ n.date = EpochZero
        /\ (includeCrossChannel /\ Len(messages) = 1 /\ DanglingAt = {1}) =>
              /\ NodeIdSet(graphData) =
                    {messages[1].id, messages[1].reply_to_message_id}
              /\ Len(graphData.nodes) = 2
              /\ graphData.edges = <<ReplyEdge(1)>>

\* the scenario, the replying message carrying reactions
C9_Witness ==
    /\ Returned
    /\ includeCrossChannel
    /\ Len(messages) = 1
    /\ DanglingAt = {1}
    /\ \E i, j \in 1..Len(graphData.nodes) :
          /\ graphData.nodes[i].isForwardedReply
          /\ graphData.nodes[j].reactionCount > 0
          /\ graphData.nodes[j].date # EpochZero

(***************************************************************************)
(* C10: the node list has exactly one node per distinct id that is the     *)
(* source or target of a returned edge and no other node: a message        *)
(* outside every emitted edge is not a node, and a message replied to by   *)
(* several others is one node.                                             *)
(***************************************************************************)
C10_NodesAreEdgeEnds ==
    Returned =>
        /\ NodeIdSet(graphData) = EdgeEnds(graphData)
        /\ Len(graphData.nodes) = Cardinality(NodeIdSet(graphData))

\* a message with two repliers, and a message that is in no edge
C10_Witness ==
    /\ Returned
    /\ \E i \in 1..Len(messages) : messages[i].id \notin NodeIdSet(graphData)
    /\ \E i, j \in 1..Len(graphData.edges) :
          /\ graphData.edges[i].source = graphData.edges[j].source
          /\ graphData.edges[i].target # graphData.edges[j].target

(***************************************************************************)
(* C11: the chains are listed by non-increasing number of member nodes,    *)
(* and chains of equal size stay in discovery order, that is by ascending  *)
(* chain id.                                                               *)
(***************************************************************************)
C11_ChainsSortedStable ==
    Returned =>
        \A i, j \in 1..Len(graphData.chains) :
            i < j =>
                LET a == graphData.chains[i]
                    b == graphData.chains[j]
                IN /\ Len(a.nodes) >= Len(b.nodes)
                   /\ Len(a.nodes) = Len(b.nodes) => a.id < b.id

\* the chain found last is the largest and is listed before two chains of
\* equal size, which keep their order
C11_Witness ==
    /\ Returned
    /\ Len(graphData.chains) = 3
    /\ graphData.chains[1].id = 3
    /\ graphData.chains[2].id = 1
    /\ graphData.chains[3].id = 2
    /\ Len(graphData.chains[2].nodes) = Len(graphData.chains[3].nodes)

C14_RadiusMonotoneBounded ==
    Returned =>
        \A i, j \in 1..Len(graphData.nodes) :
            LET a == graphData.nodes[i]
                b == graphData.nodes[j]
            IN /\ a.reactionCount > b.reactionCount => a.radius >= b.radius
               /\ a.radius >= 6000
               /\ a.radius <= 20000

\* a node whose radius is cut at 20 next to a node with fewer reactions
\* and a radius strictly between the limits
C14_Witness ==
    /\ Returned
    /\ \E i, j \in 1..Len(graphData.nodes) :
          /\ graphData.nodes[i].reactionCount > graphData.nodes[j].reactionCount
          /\ graphData.nodes[i].radius = 20000
          /\ graphData.nodes[j].radius > 6000
          /\ graphData.nodes[j].radius < 20000

(***************************************************************************)
(* C20: a call of buildReplyGraph leaves the messages array and every      *)
(* record of it as they were, and no returned node carries one of the      *)
(* position fields x, y, vx, vy, fx, fy.                                   *)
(***************************************************************************)
PositionFields == {"x", "y", "vx", "vy", "fx", "fy"}

C20_InputAndPositionsUntouched ==
    [][/\ messages' = messages
       /\ \A i \in 1..Len(graphData'.nodes) :
             DOMAIN graphData'.nodes[i] \cap PositionFields = {}]_vars

\* a call has returned nodes built from a non-empty export
C20_Witness ==
    /\ Returned
    /\ Len(messages) >= 2
    /\ Len(graphData.nodes) >= 2

(***************************************************************************)
(* C13: a call of buildReplyGraph, once entered, returns for every finite   *)
(* message list, self-replies and reply cycles included, and neither the   *)
(* component search nor the depth search takes a node from its queue       *)
(* twice.                                                                  *)
(***************************************************************************)
C13_TerminatesVisitingOnce ==
    /\ (pc # "idle") ~> (pc = "returned")
    /\ [](NoDuplicates(loop.shifted) /\ NoDuplicates(loop.depthShifted))

\* the call returned the chain of two messages that reply to each other
C13_Witness ==
    /\ pc = "returned"
    /\ Len(loop.shifted) = 2
    /\ Len(loop.depthShifted) = 2
    /\ \E i, j \in 1..Len(graphData.edges) :
          /\ graphData.edges[i].source = graphData.edges[j].target
          /\ graphData.edges[i].target = graphData.edges[j].source
          /\ graphData.edges[i].source # graphData.edges[i].target

(***************************************************************************)
(* C15: when a mouse-up or mouse-leave has been handled, fx and fy are     *)
(* null on every node, no drag and no pan is active, and the alpha target  *)
(* of the simulation is 0, whatever mouse events came before.              *)
(***************************************************************************)
C15_ReleaseClearsEveryPin ==
    [][handleMouseUp =>
          /\ \A i \in 1..Len(nodesRef') :
                nodesRef'[i].fx = Unset /\ nodesRef'[i].fy = Unset
          /\ draggingRef' = Null
          /\ ~panningRef'
          /\ alphaTarget' = AlphaRest]_vars

(***************************************************************************)
(* C16: while a node is dragged its fx and fy are set; a mouse-move puts   *)
(* them at the world coordinates of the cursor; a tick of the simulation   *)
(* leaves them alone and puts the node at (fx, fy).                        *)
(***************************************************************************)
C16_DraggedNodePinnedAtCursor ==
    [][/\ draggingRef' # Null =>
             /\ nodesRef'[draggingRef'].fx # Unset
             /\ nodesRef'[draggingRef'].fy # Unset
       /\ \A e \in ScreenPoints :
             (draggingRef # Null /\ handleMouseMove(e)) =>
                 LET w == ScreenToWorldAt(transformRef, e.x, e.y)
                 IN /\ nodesRef'[draggingRef].fx = w.x
                    /\ nodesRef'[draggingRef].fy = w.y
       /\ (draggingRef # Null /\ Tick) =>
             /\ nodesRef'[draggingRef].fx = nodesRef[draggingRef].fx
             /\ nodesRef'[draggingRef].fy = nodesRef[draggingRef].fy
             /\ nodesRef'[draggingRef].x = nodesRef[draggingRef].fx
             /\ nodesRef'[draggingRef].y = nodesRef[draggingRef].fy]_vars

\* at scale 5 the first node has been dragged from the centre to the
\* cursor 100 pixels to the right, and a tick has put it there, at world x
\* 20, while the forces moved the other node
C16_Witness ==
    /\ draggingRef = 1
    /\ transformRef.k = RInt(5)
    /\ nodesRef[1].fx = RInt(20)
    /\ nodesRef[1].x = RInt(20)
    /\ nodesRef[1].fy = RInt(0)
    /\ nodesRef[2].fx = Unset
    /\ nodesRef[2].x = RInt(5)

(***************************************************************************)
(* C17: a click that follows a mouse-down which started a node drag or a   *)
(* pan leaves selectedNode and selectedChain unchanged.                    *)
(***************************************************************************)
C17_ClickAfterCaptureKeepsSelection ==
    [][\A e \in ScreenPoints :
          (gesture # "none" /\ handleClick(e)) =>
              /\ selectedNode' = selectedNode
              /\ selectedChain' = selectedChain]_vars

(***************************************************************************)
(* C18: for every wheel event the world point that screenToWorld gives     *)
(* for the cursor position is the same with the transform as handleWheel   *)
(* leaves it as with the transform before, also when the new scale is cut  *)
(* at 0.1 or 5.                                                            *)
(***************************************************************************)
C18_ZoomKeepsPointUnderCursor ==
    [][\A e \in ScreenPoints : \A deltaY \in WheelDeltas :
          handleWheel(e, deltaY) =>
              ScreenToWorldAt(transformRef', e.x, e.y)
                  = ScreenToWorldAt(transformRef, e.x, e.y)]_vars

\* the scale was cut at 5 by a zoom about a cursor away from the centre:
\* the offset has moved by a fraction
C18_Witness ==
    /\ wheelCount > 0
    /\ transformRef.k = RInt(5)
    /\ transformRef.x[2] # 1

(***************************************************************************)
(* C19: findNode returns the node of highest index among the nodes that    *)
(* have both x and y and whose squared distance to the world point is      *)
(* less than (radius + 4) squared, and null when there is none; a node     *)
(* that lacks x or y is never returned.                                    *)
(***************************************************************************)
\* the test of the claim, for whole-numbered coordinates and the radius in
\* thousandths: 1000000 * d2 < reach * reach, written without the product
WithinReach(n, w) ==
    LET dx == w.x[1] - n.x[1]
        dy == w.y[1] - n.y[1]
        reach == n.radius + 4000
    IN dx * dx + dy * dy <= (reach * reach - 1) \div 1000000

C19_FindNodeTopmostHit ==
    [][\A e \in ScreenPoints :
          (draggingRef = Null /\ ~panningRef /\ handleMouseMove(e)) =>
              LET w == ScreenToWorldAt(transformRef, e.x, e.y)
                  hit == {i \in 1..Len(nodesRef) :
                             /\ nodesRef[i].x # Unset
                             /\ nodesRef[i].y # Unset
                             /\ WithinReach(nodesRef[i], w)}
              IN hoveredNode' = IF hit = {} THEN Null ELSE MaxOf(hit)]_vars

\* the second node is returned although the first is within reach too
C19_Witness ==
    /\ hoveredNode = 2
    /\ nodesRef[1].x = RInt(0)
    /\ nodesRef[1].y = RInt(0)
    /\ nodesRef[2].x = RInt(10)

(***************************************************************************)
(* C21: every render gets a graph from buildReplyGraph, whatever the       *)
(* message list: a node whose message has no reactions has reactionCount   *)
(* 0, a node whose message has no photo, file or media_type has hasMedia   *)
(* false, and when no reply is materialised the nodes, edges and chains    *)
(* are empty, the setup effect leaves nodesRef alone (no simulation) and   *)
(* the empty-state message is shown.                                       *)
(***************************************************************************)
GraphFields ==
    {"nodes", "edges", "chains", "selfReplyCount", "crossChannelReplyCount"}

C21_TotalWithDefaults ==
    [][(Mount \/ toggleCrossChannel) =>
          /\ DOMAIN graphData' = GraphFields
          /\ \A i \in 1..Len(graphData'.nodes) :
                LET n == graphData'.nodes[i]
                IN \A j \in 1..Len(messages) :
                      (messages[j].id = n.id
                         /\ \A l \in (j+1)..Len(messages) : messages[l].id # n.id)
                      => /\ (~messages[j].hasReactions
                               \/ messages[j].reactionCounts = <<>>)
                               => n.reactionCount = 0
                         /\ ~messages[j].media => ~n.hasMedia
          /\ (IF includeCrossChannel' THEN ReplyAt ELSE InExportAt) = {} =>
                /\ graphData'.nodes = <<>>
                /\ graphData'.edges = <<>>
                /\ graphData'.chains = <<>>
                /\ nodesRef' = nodesRef
                /\ EmptyStateShown']_vars

\* the flag has been switched off on an export whose only reply is
\* dangling: the graph is empty and nodesRef still holds the nodes of the
\* render before
C21_Witness ==
    /\ pc = "returned_again"
    /\ ~includeCrossChannel
    /\ DanglingAt # {}
    /\ graphData.nodes = <<>>
    /\ nodesRef # <<>>
    /\ EmptyStateShown

(***************************************************************************)
(* C22: in a chain whose members all have an incoming edge of the chain    *)
(* (a self-reply, a reply cycle) rootId is the first member in discovery   *)
(* order; in every chain rootId is a member and depth is the number of     *)
(* hops the directed breadth-first search from rootId makes, which lies    *)
(* between 0 and the member count less one.                                *)
(***************************************************************************)
\* number of levels below frontier in the directed search over E
RECURSIVE Hops(_, _, _)
Hops(E, frontier, seen) ==
    LET next == UNION {Children(E, id) : id \in frontier} \ seen
    IN IF next = {} THEN 0 ELSE 1 + Hops(E, next, seen \cup next)

C22_RootFallbackAndDepth ==
    Returned =>
        \A k \in 1..Len(graphData.chains) :
            LET c == graphData.chains[k]
                E == IntraEdges(graphData, c)
            IN /\ NoIncomingAt(graphData, c) = {} => c.rootId = c.nodes[1]
               /\ c.rootId \in Range(c.nodes)
               /\ c.depth = Hops(E, {c.rootId}, {c.rootId})
               /\ 0 <= c.depth
               /\ c.depth <= Len(c.nodes) - 1

\* two messages that reply to each other: the root is the first found, the
\* depth 1
C22_Witness ==
    /\ Returned
    /\ \E k \in 1..Len(graphData.chains) :
          LET c == graphData.chains[k]
          IN /\ Len(c.nodes) = 2
             /\ NoIncomingAt(graphData, c) = {}
             /\ c.rootId = c.nodes[1]
             /\ c.depth = 1

(***************************************************************************)
(* C23: the ids of the N chains are 1..N, each the id of one chain, in the *)
(* order in which the first registered node of each chain was registered;  *)
(* the sort moves chains in the list and leaves their ids.                 *)
(***************************************************************************)
\* position in the node list (registration order) of the first registered
\* member of chain c
FirstRegistered(g, c) ==
    FirstOf({i \in 1..Len(g.nodes) : g.nodes[i].id \in Range(c.nodes)})

C23_ChainIdsInDiscoveryOrder ==
    Returned =>
        LET N == Len(graphData.chains)
        IN /\ {graphData.chains[k].id : k \in 1..N} = 1..N
           /\ \A j, k \in 1..N :
                 graphData.chains[j].id = graphData.chains[k].id => j = k
           /\ \A j, k \in 1..N :
                 graphData.chains[j].id < graphData.chains[k].id
                 <=> FirstRegistered(graphData, graphData.chains[j])
                       < FirstRegistered(graphData, graphData.chains[k])

\* the sort has put the chain found second before the chain found first
C23_Witness ==
    /\ Returned
    /\ Len(graphData.chains) = 2
    /\ graphData.chains[1].id = 2
    /\ graphData.chains[2].id = 1
    /\ Len(graphData.chains[1].nodes) > Len(graphData.chains[2].nodes)

(***************************************************************************)
(* C25: the node ids and the edges returned with the flag false are among  *)
(* those returned with the flag true, selfReplyCount is the same for both, *)
(* and the number of edges is selfReplyCount with the flag false and       *)
(* selfReplyCount + crossChannelReplyCount with the flag true.             *)
(***************************************************************************)
C25_FlagOnlyAdds ==
    Returned =>
        LET off == buildReplyGraph(messages, FALSE)
            on == buildReplyGraph(messages, TRUE)
        IN /\ NodeIdSet(off) \subseteq NodeIdSet(on)
           /\ Range(off.edges) \subseteq Range(on.edges)
           /\ off.selfReplyCount = on.selfReplyCount
           /\ ~includeCrossChannel =>
                 Len(graphData.edges) = graphData.selfReplyCount
           /\ includeCrossChannel =>
                 Len(graphData.edges) = graphData.selfReplyCount
                                          + graphData.crossChannelReplyCount

\* a call with the flag true on an export with a reply of each kind
C25_Witness ==
    /\ Returned
    /\ includeCrossChannel
    /\ graphData.selfReplyCount > 0
    /\ graphData.crossChannelReplyCount > 0
    /\ Len(graphData.edges) > Len(buildReplyGraph(messages, FALSE).edges)
    /\ buildReplyGraph(messages, FALSE).edges # <<>>

(***************************************************************************)
(* C26: a phantom node is the source of an edge and never the target of    *)
(* one, and with the flag false no returned node is a phantom.             *)
(***************************************************************************)
C26_PhantomOnlySource ==
    Returned =>
        /\ \A i \in 1..Len(graphData.nodes) :
              LET n == graphData.nodes[i]
              IN n.isForwardedReply =>
                    /\ \A j \in 1..Len(graphData.edges) :
                          graphData.edges[j].target # n.id
                    /\ \E j \in 1..Len(graphData.edges) :
                          graphData.edges[j].source = n.id
        /\ ~includeCrossChannel =>
              \A i \in 1..Len(graphData.nodes) :
                  ~graphData.nodes[i].isForwardedReply

\* a phantom node that two messages reply to, next to an in-export edge
C26_Witness ==
    /\ Returned
    /\ includeCrossChannel
    /\ \E i \in 1..Len(graphData.nodes) :
          /\ graphData.nodes[i].isForwardedReply
          /\ Cardinality({j \in 1..Len(graphData.edges) :
                graphData.edges[j].source = graphData.nodes[i].id}) = 2
    /\ graphData.selfReplyCount > 0

(***************************************************************************)
(* C27: every returned edge is in the edge list of exactly one chain, the  *)
(* chain that lists both its ends; the edge lists of the chains together   *)
(* are as long as the returned edge list, and no chain is without an edge. *)
(***************************************************************************)
C27_ChainEdgesPartitionEdges ==
    Returned =>
        LET N == Len(graphData.chains)
            holding(e) == {k \in 1..N : e \in Range(graphData.chains[k].edges)}
        IN /\ \A j \in 1..Len(graphData.edges) :
                 LET e == graphData.edges[j]
                 IN /\ Cardinality(holding(e)) = 1
                    /\ \A k \in holding(e) :
                          {e.source, e.target}
                              \subseteq Range(graphData.chains[k].nodes)
           /\ SumSeq([k \in 1..N |-> Len(graphData.chains[k].edges)])
                 = Len(graphData.edges)
           /\ \A k \in 1..N : Len(graphData.chains[k].edges) >= 1

\* two chains, one of them with two edges
C27_Witness ==
    /\ Returned
    /\ Len(graphData.chains) = 2
    /\ Len(graphData.chains[1].edges) = 2
    /\ Len(graphData.chains[2].edges) = 1

(***************************************************************************)
(* C24: a mouse-down that hits no node starts a pan and pins no node;      *)
(* while the pan is active a mouse-move adds the screen delta of the       *)
(* cursor since the previous event to the offset (x, y) and leaves the     *)
(* scale k, the pins of all nodes, the hovered node and the selection as   *)
(* they were.                                                              *)
(***************************************************************************)
\* the pins (fx, fy) of the nodes
Pins(nodes) == [i \in 1..Len(nodes) |-> <<nodes[i].fx, nodes[i].fy>>]

C24_PanMovesOnlyTheOffset ==
    [][\A e \in ScreenPoints :
          /\ (handleMouseDown(e)
                 /\ LET w == ScreenToWorldAt(transformRef, e.x, e.y)
                    IN \A i \in 1..Len(nodesRef) :
                          nodesRef[i].x # Unset /\ nodesRef[i].y # Unset
                             => ~WithinReach(nodesRef[i], w))
              => /\ panningRef'
                 /\ Pins(nodesRef') = Pins(nodesRef)
          /\ (panningRef /\ handleMouseMove(e))
              => /\ transformRef'.x
                       = RAdd(transformRef.x, RInt(e.x - lastMouseRef.x))
                 /\ transformRef'.y
                       = RAdd(transformRef.y, RInt(e.y - lastMouseRef.y))
                 /\ transformRef'.k = transformRef.k
                 /\ Pins(nodesRef') = Pins(nodesRef)
                 /\ hoveredNode' = hoveredNode
                 /\ selectedNode' = selectedNode
                 /\ selectedChain' = selectedChain]_vars

(***************************************************************************)
(* C28: after any sequence of wheel, pan, drag and reset-view events the   *)
(* scale k lies in [0.1, 5], so screenToWorld never divides by zero, and   *)
(* reset-view leaves the transform at x = 0, y = 0, k = 1.                 *)
(***************************************************************************)
C28_ScaleStaysInRange ==
    /\ [](/\ ~RLess(transformRef.k, Rat(1, 10))
          /\ ~RLess(RInt(5), transformRef.k)
          /\ transformRef.k[1] # 0)
    /\ [][resetView =>
             /\ transformRef'.x = RInt(0)
             /\ transformRef'.y = RInt(0)
             /\ transformRef'.k = RInt(1)]_vars

\* the wheel has been turned and the view panned: the scale is at the lower
\* limit
C28_Witness ==
    /\ wheelCount > 0
    /\ transformRef.k = Rat(1, 10)
    /\ transformRef.x # RInt(0)
    /\ panningRef

(***************************************************************************)
(* C29: in every state reached by mouse-down, mouse-move, mouse-up and     *)
(* mouse-leave events, two mouse-downs in a row included, a node drag and  *)
(* a pan are not active together and at most one node is pinned, the       *)
(* dragged one.                                                            *)
(***************************************************************************)
C29_OneCaptureOnePin ==
    /\ ~(draggingRef # Null /\ panningRef)
    /\ \A i \in 1..Len(nodesRef) :
          (nodesRef[i].fx # Unset \/ nodesRef[i].fy # Unset) => i = draggingRef

\* followed through its loops the call returns what buildReplyGraph gives
LoopsReturnBuild ==
    pc = "returned" => graphData = buildReplyGraph(messages, includeCrossChannel)


(***************************************************************************)
(* C30: after any sequence of node selections, chain selections and        *)
(* cross-channel toggles, whenever a node is selected the chain that the   *)
(* detail panel finds by the node's chainId in the current graphData       *)
(* contains that node, and whenever selectedChain is set it is the id of a *)
(* chain of the current graphData.                                         *)
(***************************************************************************)
C30_SelectionFollowsGraphData ==
    pc # "idle" =>
        /\ selectedNode # Null =>
              /\ FindChain(SelectedNodeObject.chainId) # Null
              /\ LET chain ==
                        graphData.chains[FindChain(SelectedNodeObject.chainId)]
                 IN \E j \in 1..Len(chain.nodes) :
                        chain.nodes[j] = SelectedNodeObject.id
        /\ selectedChain # Null => FindChain(selectedChain) # Null

====
